---- MODULE Spec2Model ----
(***************************************************************************)
(* A model of procmon (src/src/procmon.c): the dependency ordered start    *)
(* engine, the per-process monitor threads, the forked children and their  *)
(* lockfiles, the command line control plane and the primary/secondary     *)
(* pair of supervisors.                                                    *)
(*                                                                         *)
(* Threads and processes are interleaved one step at a time.  A sleep is   *)
(* a step of the sleeper: it gives no bound on what the others do          *)
(* meanwhile.  A process id is never reused.                               *)
(***************************************************************************)
EXTENDS Integers, Sequences, FiniteSets, TLC

(***************************************************************************)
(* Bounds of the model.                                                    *)
(***************************************************************************)
MaxSpawn == 3       \* processes ever started under one name
MaxThreads == 2     \* monitor threads of one name alive at one time
MaxIno == 2         \* lockfiles of one name in use at one time (linked or open)
MaxDeaths == 1      \* deaths of a child that no command asked for
MaxCmds == 2        \* command line invocations (-s -r -k -d)
MaxSupKills == 1    \* supervisors killed from outside (kill -9)
MaxShutdowns == 1   \* shutdown-all invocations (-x)
MaxLockErrors == 1  \* waitlock calls that fail with an error other than EDEADLK
MaxDepends == 2     \* names in one depends list, where the lists are drawn

(***************************************************************************)
(* Names.  A descriptor id names its lockfile /tmp/procmon.<id>; the two   *)
(* supervisors use the reserved ids procmon1 and procmon2.                 *)
(***************************************************************************)
Ids == {"A", "B", "C"}
SupNames == {"procmon1", "procmon2"}
Names == Ids \cup SupNames

\* A lockfile /tmp/procmon.procmond: the id of a process that is no
\* supervisor and whose name begins like theirs.
Foreign == {"procmond"}
LockNames == Names \cup Foreign

\* The characters of a name.
Chars(name) ==
    CASE name = "procmon"  -> <<"p", "r", "o", "c", "m", "o", "n">>
      [] name = "procmon1" -> <<"p", "r", "o", "c", "m", "o", "n", "1">>
      [] name = "procmon2" -> <<"p", "r", "o", "c", "m", "o", "n", "2">>
      [] name = "procmond" -> <<"p", "r", "o", "c", "m", "o", "n", "d">>
      [] OTHER -> <<name>>

\* The character of a C string at position i, the terminator after its end.
CharAt(s, i) == IF i <= Len(s) THEN s[i] ELSE "NUL"

\* strncmp( a, b, n ) == 0
StrnEqual(a, b, n) ==
    \A i \in 1..n :
        (\A j \in 1..(i - 1) : CharAt(a, j) # "NUL") => CharAt(a, i) = CharAt(b, i)

\* The test of ShutdownAllProcesses on a directory entry procmon.<name>:
\* the entry is terminated in the scan of the directory.
Scanned(name) == ~StrnEqual(Chars(name), Chars("procmon"), 7)

NameIndex(name) ==
    CASE name = "A" -> 1 [] name = "B" -> 2 [] name = "C" -> 3
      [] name = "procmon1" -> 4 [] name = "procmon2" -> 5

\* The pid of the n-th process started under a name: pids are told apart,
\* their values carry no meaning.
PidOf(name, n) == (n - 1) * Cardinality(Names) + NameIndex(name)

\* The n of PidOf(name, n).
SpawnNo(p) == ((p - 1) \div Cardinality(Names)) + 1

Pids == 1..(MaxSpawn * Cardinality(Names))
Tids == Names \X (1..MaxThreads)
Inos == 1..MaxIno

\* The terminate word of LockData: 0, 0xDEADBEEF, 0xDEAFBABE.
TermNormal == "0"
TermSuspend == "DEADBEEF"
TermAbort == "DEAFBABE"

VARIABLES
    plist,          \* the process list pFirst..pLast, in declaration order
    state,          \* Process.state of each descriptor
    runcount,       \* Process.runcount of each descriptor (in memory)
    restart_delay,  \* Process.restart_delay of each descriptor
    engine,         \* the position of RunProcesses in the primary's main thread
    threads,        \* the monitor threads (MonitorThread)
    os,             \* the operating system's processes, by pid
    files,          \* the lockfiles /tmp/procmon.<name>
    holder,         \* the owner of the write lock on byte 0 of each lockfile inode
    cli,            \* the command line invocation in flight
    hist            \* history: counters of the bounds, and what the properties observe

vars == <<plist, state, runcount, restart_delay, engine, threads, os, files,
          holder, cli, hist>>

(***************************************************************************)
(* The process table (SetupProcess, FindProcess) and the dependency lists  *)
(* (BuildDependencyLists).                                                 *)
(***************************************************************************)
Desc(id, depends, monitored, rop, skip, wait) ==
    [id |-> id, depends |-> depends, monitored |-> monitored,
     restart_on_parent_death |-> rop, skip |-> skip, wait |-> wait]

\* The Process object a supervisor builds for its peer (MonitorProcmon).
PeerProcess(name) == Desc(name, <<>>, TRUE, FALSE, FALSE, 0)

ListIds == {plist[i].id : i \in 1..Len(plist)}

FindProcess(id) ==
    plist[CHOOSE i \in 1..Len(plist) :
              plist[i].id = id /\ \A j \in 1..(i - 1) : plist[j].id # id]

Proc(id) == IF id \in SupNames THEN PeerProcess(id) ELSE FindProcess(id)

\* AddParents walks the depends list up to the first name that FindProcess
\* does not find: the number of entries it hands to AddParent.
Linked(id) ==
    LET d == Proc(id).depends
        bad == {k \in 1..Len(d) : d[k] \notin ListIds}
    IN  IF bad = {} THEN Len(d)
        ELSE (CHOOSE k \in bad : \A j \in bad : k <= j) - 1

\* The lists before BuildDependencyLists: pParents and pChildren are NULL.
NoLists == [parents |-> [d \in Ids |-> <<>>], children |-> [d \in Ids |-> <<>>]]

\* An AddChild that would link nothing.
AddChildFails(L, pParent, pChild) == L

\* AddChild: the child goes to the head of pParent->pChildren, unless the
\* two are the same process.
AddChild(L, pParent, pChild) ==
    IF pParent # pChild
    THEN [L EXCEPT !.children[pParent] = <<pChild>> \o @]
    ELSE L

\* AddParent: the parent goes to the head of pChild->pParents and AddChild
\* is called, unless the two are the same process.
AddParent(L, pChild, pParent) ==
    IF pParent # pChild
    THEN AddChild([L EXCEPT !.parents[pChild] = <<pParent>> \o @], pParent, pChild)
    ELSE L

\* The lists after AddParents( id ): one AddParent for every entry of the
\* depends list up to the first name that is not found.
ParentsAdded(L, id) ==
    LET d == Proc(id).depends
        f[k \in 0..Linked(id)] ==
            IF k = 0 THEN L ELSE AddParent(f[k - 1], id, d[k])
    IN  f[Linked(id)]

\* The lists after BuildDependencyLists: AddParents for every process of
\* the list, in its order.
Lists ==
    LET g[i \in 0..Len(plist)] ==
            IF i = 0 THEN NoLists ELSE ParentsAdded(g[i - 1], plist[i].id)
    IN  g[Len(plist)]

Range(s) == {s[k] : k \in 1..Len(s)}

\* pParents, as the set of the processes in the list.
pParents(id) == IF id \in SupNames THEN {} ELSE Range(Lists.parents[id])

\* An AddParents that would report success whatever it has met.
AddParentsLenient(id) == TRUE

\* AddParents returns EOK: every declared parent was found, and none is the
\* process itself.
AddParents(id) ==
    /\ Linked(id) = Len(Proc(id).depends)
    /\ \A k \in 1..Len(Proc(id).depends) : Proc(id).depends[k] # id

\* BuildDependencyLists returns EOK.
BuildDependencyLists == \A id \in ListIds : AddParents(id)

\* pChildren, in the order of the list.
pChildren(id) == IF id \in SupNames THEN <<>> ELSE Lists.children[id]

SetMax(S) == IF S = {} THEN 0 ELSE CHOOSE x \in S : \A y \in S : y <= x

\* A GetParentRuncount that would never report less than one.
ParentRuncountOne(id) == SetMax({runcount[p] : p \in pParents(id)} \cup {1})

GetParentRuncount(id) == SetMax({runcount[p] : p \in pParents(id)})

\* The number of processes on the longest chain of parents that ends in id,
\* followed for at most n processes.
LongestPath(id, n) ==
    LET lp[k \in 0..n] ==
            [d \in Ids |-> IF k = 0 THEN 0
                           ELSE 1 + SetMax({lp[k - 1][p] : p \in pParents(d)})]
    IN  lp[n][id]

\* No process of the list is its own ancestor.
Acyclic == \A id \in ListIds : LongestPath(id, Len(plist) + 1) <= Len(plist)

\* The depth of an acyclic graph: the processes on its longest chain.
GraphDepth == SetMax({LongestPath(id, Len(plist) + 1) : id \in ListIds})

Runnable(id) == \A p \in pParents(id) : state[p] = "RUNNING"

(***************************************************************************)
(* Lockfiles.  A file is its inode and the LockData header; ino 0 is no    *)
(* file.  An open file descriptor is the inode it was opened on; inodes    *)
(* are numbered within a name.                                             *)
(***************************************************************************)
NoFile == [ino |-> 0, pid |-> 0, terminate |-> TermNormal, runcount |-> 0]

Exists(name) == files[name].ino # 0

UsedInos(name) ==
    {files[name].ino} \cup {i \in Inos : holder[name][i] # 0}
        \cup {os[p].fd : p \in {q \in Pids : os[q].id = name}}
        \cup {threads[t].fd : t \in {u \in Tids : threads[u].id = name}}
        \cup (IF cli.name = name THEN {cli.fd} ELSE {})

(***************************************************************************)
(* Processes.  A forked child is "forked", then "mlread" (inside makelock, *)
(* the header read or the file created), then "running" (after execvp).    *)
(* A dead child is a "zombie" until its parent reaps it.                   *)
(***************************************************************************)
NoProc == [st |-> "none", id |-> "-", parent |-> 0, ld |-> NoFile, fd |-> 0,
           main |-> "-"]

Live(p) == p \in Pids /\ os[p].st \in {"forked", "mlread", "running"}

\* kill(pid, sig) finds the process: alive, or dead and not yet reaped.
KillFinds(p) == p \in Pids /\ os[p].st \in {"forked", "mlread", "running", "zombie"}

Children(id) == {p \in Pids : os[p].id = id /\ Live(p)}

Spawned(id) == Cardinality({p \in Pids : os[p].id = id /\ os[p].st # "none"})

NoThread == [id |-> "-", pc |-> "free", pid |-> 0, fd |-> 0, k |-> 0, owner |-> 0]

ThreadsOf(id) == {t \in Tids : threads[t].id = id /\ threads[t].pc # "free"}

EngineOff == [pc |-> "off", idx |-> 0, running |-> FALSE, owner |-> 0]

\* The death of process p: its locks are released, its threads end, and
\* its unreaped children go to init.
OsAfterDeath(o, p) ==
    IF ~(p \in Pids /\ o[p].st \in {"forked", "mlread", "running"}) THEN o
    ELSE [q \in Pids |->
            IF q = p
            THEN IF o[p].parent # 0 /\ o[o[p].parent].st = "running"
                 THEN [NoProc EXCEPT !.st = "zombie", !.id = o[p].id,
                                     !.parent = o[p].parent]
                 ELSE [NoProc EXCEPT !.st = "dead", !.id = o[p].id]
            ELSE IF o[q].parent = p /\ o[q].st = "zombie"
                 THEN [NoProc EXCEPT !.st = "dead", !.id = o[q].id]
                 ELSE o[q]]

HolderAfterDeath(h, p) ==
    IF Live(p)
    THEN [n \in Names |-> [i \in Inos |-> IF h[n][i] = p THEN 0 ELSE h[n][i]]]
    ELSE h

ThreadsAfterDeath(th, p) ==
    IF Live(p) THEN [t \in Tids |-> IF th[t].owner = p THEN NoThread ELSE th[t]]
    ELSE th

(***************************************************************************)
(* get_pid_from_lockfile: the set of values the call may return.  With no  *)
(* lockfile the terminate word tested is that of an unset LockData: the    *)
(* call may answer 0, -1 or -2.                                            *)
(***************************************************************************)
\* The call without its kill( pid, 0 ) probe: the pid of the lockfile is
\* returned whether the process exists or not.
get_pid_unprobed(name) ==
    IF ~Exists(name) THEN {0, -1, -2}
    ELSE IF files[name].terminate = TermSuspend THEN {-1}
    ELSE IF files[name].terminate = TermAbort THEN {-2}
    ELSE {files[name].pid}

get_pid_from_lockfile(name) ==
    IF ~Exists(name) THEN {0, -1, -2}
    ELSE IF files[name].terminate = TermSuspend THEN {-1}
    ELSE IF files[name].terminate = TermAbort THEN {-2}
    ELSE IF KillFinds(files[name].pid) THEN {files[name].pid}
    ELSE {0}

(***************************************************************************)
(* InitProcess: pthread_create of a MonitorThread, then state := STARTED.  *)
(***************************************************************************)
HasFreeTid(id) == \E k \in 1..MaxThreads : threads[<<id, k>>].pc = "free"

FreeTid(id) ==
    <<id, CHOOSE k \in 1..MaxThreads :
              /\ threads[<<id, k>>].pc = "free"
              /\ \A j \in 1..(k - 1) : threads[<<id, j>>].pc # "free">>

NewThread(id, owner) ==
    [id |-> id, pc |-> "entry", pid |-> 0, fd |-> 0, k |-> 0, owner |-> owner]

InitProcess(id, owner) ==
    /\ HasFreeTid(id)
    /\ threads' = [threads EXCEPT ![FreeTid(id)] = NewThread(id, owner)]
    /\ state' = IF id \in Ids THEN [state EXCEPT ![id] = "STARTED"] ELSE state

(***************************************************************************)
(* The start engine: RunProcesses, Runnable, Run, WaitProcess.             *)
(***************************************************************************)
EngCur == plist[engine.idx].id

\* One turn of the sweep: the end of the list, or Runnable(pProcess) and,
\* when it is, Run up to InitProcess.
\* One more pass of RunProcesses over the list is over (counted up to one
\* more than the length of the list).
Swept(h) ==
    [h EXCEPT !.sweeps = IF h.sweeps <= Len(plist) THEN h.sweeps + 1 ELSE h.sweeps]

EngSweep ==
    /\ engine.pc = "sweep"
    /\ IF engine.idx > Len(plist)
       THEN /\ engine' = IF engine.running
                         THEN [engine EXCEPT !.pc = "done"]
                         ELSE [engine EXCEPT !.idx = 1, !.running = TRUE]
            /\ UNCHANGED <<threads, state>>
       ELSE IF ~Runnable(EngCur)
       THEN /\ engine' = [engine EXCEPT !.idx = engine.idx + 1, !.running = FALSE]
            /\ UNCHANGED <<threads, state>>
       ELSE IF Proc(EngCur).skip
       THEN /\ engine' = [engine EXCEPT !.pc = "setrun"]
            /\ UNCHANGED <<threads, state>>
       ELSE /\ InitProcess(EngCur, engine.owner)
            /\ engine' = [engine EXCEPT !.pc = IF Proc(EngCur).wait > 0
                                               THEN "wait" ELSE "setrun"]
    /\ hist' = IF engine.idx > Len(plist) THEN Swept(hist)
               ELSE IF Runnable(EngCur) /\ ~Proc(EngCur).skip
               THEN [hist EXCEPT !.fresh = (Children(EngCur) = {})]
               ELSE hist
    /\ UNCHANGED <<plist, runcount, restart_delay, os, files, holder, cli>>

\* WaitProcess of a process with a wait time: the test of the lockfile.
EngWait ==
    /\ engine.pc = "wait"
    /\ \E pid \in get_pid_from_lockfile(EngCur) :
          IF /\ pid = 0
             /\ \/ Proc(EngCur).monitored
                \/ runcount[EngCur] < GetParentRuncount(EngCur)
          THEN /\ state' = [state EXCEPT ![EngCur] = "WAITING"]
               /\ engine' = [engine EXCEPT !.pc = "sleep"]
          ELSE /\ engine' = [engine EXCEPT !.pc = "setrun"]
               /\ UNCHANGED state
    /\ UNCHANGED <<plist, runcount, restart_delay, threads, os, files, holder,
                   cli, hist>>

\* sleep( pProcess->wait ) is over.
EngSleep ==
    /\ engine.pc = "sleep"
    /\ engine' = [engine EXCEPT !.pc = "setrun"]
    /\ UNCHANGED <<plist, state, runcount, restart_delay, threads, os, files,
                   holder, cli, hist>>

\* Run: pProcess->state = PROCSTATE_eRUNNING.
EngSetRunning ==
    /\ engine.pc = "setrun"
    /\ state' = [state EXCEPT ![EngCur] = "RUNNING"]
    /\ engine' = [engine EXCEPT !.pc = "sweep", !.idx = engine.idx + 1]
    /\ UNCHANGED <<plist, runcount, restart_delay, threads, os, files, holder,
                   cli, hist>>

(***************************************************************************)
(* MonitorThread.  Thread t runs for the process named threads[t].id       *)
(* inside the supervisor process threads[t].owner.                         *)
(***************************************************************************)
\* The suppression check at the head of MonitorThread.
MtEntry(t) ==
    /\ threads[t].pc = "entry"
    /\ LET id == threads[t].id IN
       threads' = IF /\ ~Proc(id).monitored
                     /\ runcount[id] >= GetParentRuncount(id)
                  THEN [threads EXCEPT ![t] = NoThread]
                  ELSE [threads EXCEPT ![t].pc = "poll"]
    /\ UNCHANGED <<plist, state, runcount, restart_delay, engine, os, files,
                   holder, cli, hist>>

\* What follows the fork in the parent, or the adoption of a running pid:
\* RestartDependents, then usleep and Monitor; waitpid when not monitored.
AfterFork(id) ==
    IF ~Proc(id).monitored THEN "waitpid"
    ELSE IF Len(pChildren(id)) > 0 THEN "deps" ELSE "monopen"

\* remove_lockfile of an existing lockfile: the runcount that is lost.
Removed(h, id) ==
    IF id \in Ids /\ Exists(id)
    THEN [h EXCEPT !.lastrc[id] = files[id].runcount]
    ELSE h

\* A monitor that would fork although it has found a running process.
AfterFoundForks(id) == "fork"

\* What follows when the pid of the lockfile is alive: the else branch of
\* the fork, as in the parent after a fork.
AfterFound(id) == AfterFork(id)

\* Terminate-and-delete has taken effect: thread t removes the lockfile that
\* carries ABORT and exits, and it leaves no thread and no child of id.
Deleted(h, id, t) ==
    IF /\ id \in Ids /\ Exists(id) /\ files[id].terminate = TermAbort
       /\ ThreadsOf(id) = {t} /\ Children(id) = {}
    THEN [h EXCEPT !.deleted[id] = Spawned(id)]
    ELSE h

\* Thread t has found the pid of the lockfile of id alive.
Found(h, id, t, pid) ==
    IF id \in Ids
    THEN [h EXCEPT !.adopt[id] = pid, !.found = @ \cup {t}]
    ELSE [h EXCEPT !.found = @ \cup {t}]

\* The head of the loop: get_pid_from_lockfile and the tests on it.
MtPoll(t) ==
    /\ threads[t].pc = "poll"
    /\ LET id == threads[t].id IN
       \E pid \in get_pid_from_lockfile(id) :
          CASE pid = -2 ->
                 /\ files' = [files EXCEPT ![id] = NoFile]
                 /\ threads' = [threads EXCEPT ![t] = NoThread]
                 /\ hist' = Deleted(Removed(hist, id), id, t)
                 /\ UNCHANGED runcount
            [] pid = -1 ->
                 /\ threads' = [threads EXCEPT ![t].pc = "suspended"]
                 /\ UNCHANGED <<files, runcount, hist>>
            [] pid = 0 ->
                 /\ runcount' = IF id \in Ids
                                THEN [runcount EXCEPT ![id] = runcount[id] + 1]
                                ELSE runcount
                 /\ threads' = [threads EXCEPT ![t].pc =
                                  IF id \in Ids /\ restart_delay[id] # 0
                                  THEN "delay" ELSE "fork"]
                 /\ hist' = [hist EXCEPT !.found = @ \ {t}]
                 /\ UNCHANGED files
            [] OTHER ->
                 /\ threads' = [threads EXCEPT ![t].pid = pid,
                                               ![t].pc = AfterFound(id),
                                               ![t].k = 1]
                 /\ hist' = Found(hist, id, t, pid)
                 /\ UNCHANGED <<files, runcount>>
    /\ UNCHANGED <<plist, state, restart_delay, engine, os, holder, cli>>

\* A suspended monitor that would leave its loop after one sleep, without
\* reading the terminate word again.
MtSuspendedOnce(t) ==
    /\ threads[t].pc = "suspended"
    /\ threads' = [threads EXCEPT ![t].pc = "fork"]
    /\ UNCHANGED <<plist, state, runcount, restart_delay, engine, os, files,
                   holder, cli, hist>>

\* sleep(1) of the suspended monitor is over: continue.
MtSuspended(t) ==
    /\ threads[t].pc = "suspended"
    /\ threads' = [threads EXCEPT ![t].pc = "poll"]
    /\ UNCHANGED <<plist, state, runcount, restart_delay, engine, os, files,
                   holder, cli, hist>>

\* sleep( pProcess->restart_delay ) is over.
MtDelay(t) ==
    /\ threads[t].pc = "delay"
    /\ threads' = [threads EXCEPT ![t].pc = "fork"]
    /\ hist' = [hist EXCEPT !.hold = @ \ {threads[t].id}]
    /\ UNCHANGED <<plist, state, runcount, restart_delay, engine, os, files,
                   holder, cli>>

HasFreePid(id) == Spawned(id) < MaxSpawn

FreePid(id) == PidOf(id, Spawned(id) + 1)

\* pid = fork(): the parent's side.  The child starts at "forked".
MtFork(t) ==
    /\ threads[t].pc = "fork"
    /\ HasFreePid(threads[t].id)
    /\ LET id == threads[t].id IN
       /\ os' = [os EXCEPT ![FreePid(id)] =
                    [NoProc EXCEPT !.st = "forked", !.id = id,
                                   !.parent = threads[t].owner]]
       /\ threads' = [threads EXCEPT ![t].pid = FreePid(id),
                                     ![t].pc = AfterFork(id),
                                     ![t].k = 1]
    /\ UNCHANGED <<plist, state, runcount, restart_delay, engine, files, holder,
                   cli, hist>>

\* The thread after RestartDependent call number k: the next call, the
\* usleep before Monitor, or the end of a thread that does not monitor.
AfterDependent(th, t) ==
    IF th[t].k < Len(pChildren(th[t].id))
    THEN [th EXCEPT ![t].k = th[t].k + 1]
    ELSE IF Proc(th[t].id).monitored
    THEN [th EXCEPT ![t].pc = "monopen", ![t].k = 0]
    ELSE [th EXCEPT ![t] = NoThread]

\* RestartDependent of the thread of id has restarted c: it has set the
\* delay to a wait time that is not zero, and it has killed the process of
\* c or started a monitor for c.
Propagated(h, id, c) ==
    IF /\ Proc(id).wait > 0
       /\ Proc(c).monitored => (Exists(c) /\ Live(files[c].pid))
    THEN [h EXCEPT !.hold = @ \cup {c}]
    ELSE h

\* A RestartDependent that would not look at the skip flag.
RestartsSkipped(c) ==
    /\ Proc(c).restart_on_parent_death
    /\ state[c] # "INIT"

\* A RestartDependent that would not look at the state.
RestartsUnstarted(c) ==
    /\ Proc(c).restart_on_parent_death
    /\ ~Proc(c).skip

\* RestartDependent: the test of the dependent before it is restarted.
Restarts(c) ==
    /\ Proc(c).restart_on_parent_death
    /\ ~Proc(c).skip
    /\ state[c] # "INIT"

\* RestartDependents: one RestartDependent call, for child number k.
MtRestartDependent(t) ==
    /\ threads[t].pc = "deps"
    /\ LET id == threads[t].id
           c == pChildren(id)[threads[t].k]
       IN  IF Restarts(c)
           THEN /\ restart_delay' = [restart_delay EXCEPT ![c] = Proc(id).wait]
                /\ IF Proc(c).monitored
                   THEN \* restart( pProcess->id ): kill the pid of the lockfile
                        /\ threads' = AfterDependent(threads, t)
                        /\ os' = IF Exists(c) THEN OsAfterDeath(os, files[c].pid)
                                 ELSE os
                        /\ holder' = IF Exists(c)
                                     THEN HolderAfterDeath(holder, files[c].pid)
                                     ELSE holder
                        /\ UNCHANGED state
                   ELSE \* InitProcess( pProcess )
                        /\ HasFreeTid(c)
                        /\ threads' = AfterDependent(
                               [threads EXCEPT ![FreeTid(c)] =
                                   NewThread(c, threads[t].owner)], t)
                        /\ state' = [state EXCEPT ![c] = "STARTED"]
                        /\ UNCHANGED <<os, holder>>
           ELSE /\ threads' = AfterDependent(threads, t)
                /\ UNCHANGED <<restart_delay, os, holder, state>>
    /\ hist' = LET c == pChildren(threads[t].id)[threads[t].k]
               IN  IF Restarts(c) THEN Propagated(hist, threads[t].id, c)
                   ELSE [hist EXCEPT !.passed = @ \cup {c}]
    /\ UNCHANGED <<plist, runcount, engine, files, cli>>

\* F_SETLKW finds a cycle: the holder of the lock has a thread blocked on a
\* lock that the caller's process holds.
Deadlock(t, fd) ==
    \E u \in Tids :
        /\ threads[u].pc = "blocked"
        /\ threads[u].owner = holder[threads[t].id][fd]
        /\ holder[threads[u].id][threads[u].fd] = threads[t].owner

\* waitlock( fd ): EOK (then unlock, close and on to waitpid), EDEADLK
\* (then sleep(1)), or the caller blocks.
Waitlock(t, fd) ==
    IF holder[threads[t].id][fd] \in {0, threads[t].owner} THEN "waitpid"
    ELSE IF Deadlock(t, fd) THEN "dlsleep"
    ELSE "blocked"

AfterWaitlock(t, fd) ==
    /\ threads' = [threads EXCEPT
                      ![t].pc = Waitlock(t, fd),
                      ![t].fd = IF Waitlock(t, fd) = "waitpid" THEN 0 ELSE fd]
    /\ holder' = IF Waitlock(t, fd) = "waitpid"
                 THEN [holder EXCEPT ![threads[t].id][fd] = 0]
                 ELSE holder

\* usleep(500000) is over.  Monitor: open_lockfile and the first waitlock.
MtMonitorOpen(t) ==
    /\ threads[t].pc = "monopen"
    /\ IF Exists(threads[t].id)
       THEN AfterWaitlock(t, files[threads[t].id].ino)
       ELSE /\ threads' = [threads EXCEPT ![t].pc = "waitpid"]
            /\ UNCHANGED holder
    /\ UNCHANGED <<plist, state, runcount, restart_delay, engine, os, files,
                   cli, hist>>

\* The lock a blocked waitlock waits for is released.
MtWaitlock(t) ==
    /\ threads[t].pc = "blocked"
    /\ Waitlock(t, threads[t].fd) = "waitpid"
    /\ AfterWaitlock(t, threads[t].fd)
    /\ UNCHANGED <<plist, state, runcount, restart_delay, engine, os, files,
                   cli, hist>>

\* waitlock( fd ) of Monitor fails with an error that is not EDEADLK (EINTR,
\* ENOLCK): Monitor prints the error and returns without the lock, and
\* MonitorThread goes on to its waitpid.
MtWaitlockFails(t) ==
    /\ \/ threads[t].pc = "monopen" /\ Exists(threads[t].id)
       \/ threads[t].pc \in {"blocked", "dlsleep"}
    /\ hist.lockerrs < MaxLockErrors
    /\ threads' = [threads EXCEPT ![t].pc = "waitpid", ![t].fd = 0]
    /\ hist' = [hist EXCEPT !.lockerrs = @ + 1, !.failed = @ \cup {threads[t].id}]
    /\ UNCHANGED <<plist, state, runcount, restart_delay, engine, os, files,
                   holder, cli>>

\* A Monitor that would take EDEADLK like any other error: it returns.
MtDlGivesUp(t) ==
    /\ threads[t].pc = "dlsleep"
    /\ threads' = [threads EXCEPT ![t].pc = "waitpid", ![t].fd = 0]
    /\ UNCHANGED <<plist, state, runcount, restart_delay, engine, os, files,
                   holder, cli, hist>>

\* sleep(1) after EDEADLK is over: waitlock again.
MtDlSleep(t) ==
    /\ threads[t].pc = "dlsleep"
    /\ AfterWaitlock(t, threads[t].fd)
    /\ hist' = IF Waitlock(t, threads[t].fd) = "waitpid"
               THEN [hist EXCEPT !.polled = @ \cup {t}]
               ELSE hist
    /\ UNCHANGED <<plist, state, runcount, restart_delay, engine, os, files,
                   cli>>

\* A MonitorThread that would go back to the head of its loop after the
\* waitpid whether the process is monitored or not.
MtWaitpidLoops(t) ==
    /\ threads[t].pc = "waitpid"
    /\ LET pid == threads[t].pid
           mine == os[pid].parent = threads[t].owner
       IN  /\ ~(mine /\ Live(pid))
           /\ os' = IF mine /\ os[pid].st = "zombie"
                    THEN [os EXCEPT ![pid] = [NoProc EXCEPT !.st = "dead",
                                                         !.id = os[pid].id]]
                    ELSE os
           /\ threads' = [threads EXCEPT ![t].pc = "poll", ![t].pid = 0]
    /\ UNCHANGED <<plist, state, runcount, restart_delay, engine, files, holder,
                   cli, hist>>

\* waitpid( pid, &wstatus, 0 ): blocks while a child of this process is
\* alive, reaps it when it is dead, fails at once for any other pid.
MtWaitpid(t) ==
    /\ threads[t].pc = "waitpid"
    /\ LET pid == threads[t].pid
           id == threads[t].id
           mine == os[pid].parent = threads[t].owner
       IN  /\ ~(mine /\ Live(pid))
           /\ os' = IF mine /\ os[pid].st = "zombie"
                    THEN [os EXCEPT ![pid] = [NoProc EXCEPT !.st = "dead",
                                                         !.id = os[pid].id]]
                    ELSE os
           /\ threads' = IF Proc(id).monitored
                         THEN [threads EXCEPT ![t].pc = "poll", ![t].pid = 0]
                         ELSE IF Len(pChildren(id)) > 0
                         THEN [threads EXCEPT ![t].pc = "deps", ![t].pid = 0,
                                              ![t].k = 1]
                         ELSE [threads EXCEPT ![t] = NoThread]
    /\ UNCHANGED <<plist, state, runcount, restart_delay, engine, files, holder,
                   cli, hist>>

\* A thread that waits for another process to die.
Waiting(t) ==
    \/ threads[t].pc = "blocked" /\ Waitlock(t, threads[t].fd) # "waitpid"
    \/ /\ threads[t].pc = "waitpid"
       /\ os[threads[t].pid].parent = threads[t].owner
       /\ Live(threads[t].pid)

\* Nothing is under way for id: the engine is done, every child of id has
\* started, and every monitor thread of id waits for a death.
AtRest(id) ==
    /\ engine.pc = "done"
    /\ \A p \in Children(id) : os[p].st = "running"
    /\ \A t \in ThreadsOf(id) : Waiting(t)

(***************************************************************************)
(* makelock, in two steps of the calling process p: the open (or the       *)
(* create) with the read of the header, then the write of the header and   *)
(* the F_SETLK.  The header read is kept in ld; ld.ino = 0 after a create. *)
(***************************************************************************)
HasFreeIno(name) == Inos \ UsedInos(name) # {}

FreeIno(name) ==
    CHOOSE i \in Inos \ UsedInos(name) : \A j \in Inos \ UsedInos(name) : i <= j

\* create_lockfile: pid, runcount 1, terminate 0.
create_lockfile(p, name) ==
    [files EXCEPT ![name] = [ino |-> FreeIno(name), pid |-> p,
                             terminate |-> TermNormal, runcount |-> 1]]

\* The header makelock writes back: runcount + 1 and the new pid; the
\* terminate word is the one it read.
MakelockHeader(p, ld) == [ld EXCEPT !.pid = p, !.runcount = ld.runcount + 1]

\* A write through a descriptor reaches the file of that name only while
\* the name still is that inode.
WriteThrough(name, fd, rec) ==
    IF files[name].ino = fd THEN [files EXCEPT ![name] = rec] ELSE files

MakelockOpen(p, name) ==
    IF Exists(name)
    THEN /\ os' = [os EXCEPT ![p].ld = files[name], ![p].fd = files[name].ino,
                             ![p].st = IF os[p].st = "forked" THEN "mlread" ELSE @,
                             ![p].main = IF os[p].main = "mkown_r" THEN "mkown_w" ELSE @]
         /\ UNCHANGED files
    ELSE /\ HasFreeIno(name)
         /\ files' = create_lockfile(p, name)
         /\ os' = [os EXCEPT ![p].ld = NoFile, ![p].fd = FreeIno(name),
                             ![p].st = IF os[p].st = "forked" THEN "mlread" ELSE @,
                             ![p].main = IF os[p].main = "mkown_r" THEN "mkown_w" ELSE @]

MakelockWrite(p, name) ==
    /\ files' = IF os[p].ld.ino # 0
                THEN WriteThrough(name, os[p].fd, MakelockHeader(p, os[p].ld))
                ELSE files
    /\ holder' = IF holder[name][os[p].fd] \in {0, p}
                 THEN [holder EXCEPT ![name][os[p].fd] = p] ELSE holder

(***************************************************************************)
(* The forked child: RunProcess.                                           *)
(***************************************************************************)
ChMakelockOpen(p) ==
    /\ os[p].st = "forked"
    /\ Proc(os[p].id).monitored
    /\ MakelockOpen(p, os[p].id)
    /\ UNCHANGED <<plist, state, runcount, restart_delay, engine, threads,
                   holder, cli, hist>>

\* Only one primary at a time is followed through its configuration.
OtherPrimary(p) ==
    \E q \in Pids \ {p} : os[q].st = "running" /\ os[q].id = "procmon1"

\* The lockfile runcount once a child forked after the death has started.
Answered(p, rc) ==
    LET id == os[p].id
    IN  IF /\ id \in Ids /\ hist.before[id] >= 0 /\ hist.after[id] < 0
           /\ SpawnNo(p) > hist.mark[id]
        THEN [hist EXCEPT !.after[id] = rc]
        ELSE hist

\* The rest of makelock, then execvp.  A supervisor starts at main().
ChMakelockWrite(p) ==
    /\ os[p].st = "mlread"
    /\ os[p].id = "procmon1" => ~OtherPrimary(p)
    /\ MakelockWrite(p, os[p].id)
    /\ os' = [os EXCEPT ![p].st = "running", ![p].ld = NoFile, ![p].fd = 0,
                        ![p].main = IF os[p].id \in SupNames THEN "mkown_r" ELSE "-"]
    /\ hist' = Answered(p, files'[os[p].id].runcount)
    /\ UNCHANGED <<plist, state, runcount, restart_delay, engine, threads, cli>>

\* A process that is not monitored makes no lock: execvp at once.
ChExec(p) ==
    /\ os[p].st = "forked"
    /\ ~Proc(os[p].id).monitored
    /\ os' = [os EXCEPT ![p].st = "running"]
    /\ UNCHANGED <<plist, state, runcount, restart_delay, engine, threads,
                   files, holder, cli, hist>>

(***************************************************************************)
(* The death of a process.                                                 *)
(***************************************************************************)
DeathOf(p) ==
    /\ os' = OsAfterDeath(os, p)
    /\ holder' = HolderAfterDeath(holder, p)
    /\ threads' = ThreadsAfterDeath(threads, p)
    /\ IF Live(p) /\ engine.owner = p
       THEN /\ engine' = EngineOff
            /\ state' = [d \in Ids |-> "INIT"]
            /\ runcount' = [d \in Ids |-> 0]
            /\ restart_delay' = [d \in Ids |-> 0]
       ELSE UNCHANGED <<engine, state, runcount, restart_delay>>

\* The program of a descriptor exits, or is killed by a third party.
ChDeath(p) ==
    /\ os[p].st = "running"
    /\ os[p].id \in Ids
    /\ hist.deaths < MaxDeaths
    /\ DeathOf(p)
    /\ LET id == os[p].id
           owed == Proc(id).monitored /\ Exists(id)
                       /\ files[id].terminate = TermNormal
       IN  hist' = [hist EXCEPT !.deaths = hist.deaths + 1,
                                !.before[id] = IF owed THEN files[id].runcount ELSE -1,
                                !.after[id] = -1,
                                !.mark[id] = Spawned(id),
                                !.started[id] = FALSE]
    /\ UNCHANGED <<plist, files, cli>>

\* A supervisor is killed from outside (kill -9).
SupKill(p) ==
    /\ os[p].st = "running"
    /\ os[p].id \in SupNames
    /\ hist.supkills < MaxSupKills
    /\ DeathOf(p)
    /\ LET peer == {q \in Pids : os[q].st = "running" /\ os[q].id \in SupNames \ {os[p].id}}
           owed == peer # {} /\ Exists(os[p].id)
                       /\ files[os[p].id].terminate = TermNormal
       IN  hist' = [hist EXCEPT !.supkills = hist.supkills + 1,
                                !.killed = IF owed THEN os[p].id ELSE "-",
                                !.survivor = IF owed THEN CHOOSE q \in peer : TRUE
                                             ELSE 0]
    /\ UNCHANGED <<plist, files, cli>>

(***************************************************************************)
(* main() of a supervisor: MakeOwnLock, MonitorProcmon, ProcessConfigFile. *)
(***************************************************************************)
PeerName(name) == IF name = "procmon1" THEN "procmon2" ELSE "procmon1"

SupMakeOwnLockOpen(p) ==
    /\ os[p].st = "running"
    /\ os[p].main = "mkown_r"
    /\ MakelockOpen(p, os[p].id)
    /\ UNCHANGED <<plist, state, runcount, restart_delay, engine, threads,
                   holder, cli, hist>>

SupMakeOwnLockWrite(p) ==
    /\ os[p].st = "running"
    /\ os[p].main = "mkown_w"
    /\ MakelockWrite(p, os[p].id)
    /\ os' = [os EXCEPT ![p].main = "monprocmon", ![p].ld = NoFile, ![p].fd = 0]
    /\ UNCHANGED <<plist, state, runcount, restart_delay, engine, threads,
                   cli, hist>>

SupMonitorProcmon(p) ==
    /\ os[p].st = "running"
    /\ os[p].main = "monprocmon"
    /\ InitProcess(PeerName(os[p].id), p)
    /\ os' = [os EXCEPT ![p].main = IF os[p].id = "procmon1" THEN "config" ELSE "idle"]
    /\ UNCHANGED <<plist, runcount, restart_delay, engine, files, holder, cli, hist>>

\* ProcessConfigFile: the list is built, and RunProcesses begins when
\* BuildDependencyLists has returned EOK.
SupProcessConfigFile(p) ==
    /\ os[p].st = "running"
    /\ os[p].main = "config"
    /\ engine' = IF BuildDependencyLists
                 THEN [pc |-> "sweep", idx |-> 1, running |-> TRUE, owner |-> p]
                 ELSE engine
    /\ os' = [os EXCEPT ![p].main = "idle"]
    /\ hist' = [hist EXCEPT !.sweeps = 0]
    /\ UNCHANGED <<plist, state, runcount, restart_delay, threads, files,
                   holder, cli>>

(***************************************************************************)
(* The command line: one invocation at a time.  start and restart are one  *)
(* step each; terminate_command is the open and read, the write of the     *)
(* terminate word, and the kill.                                           *)
(***************************************************************************)
NoRestart == [p |-> "-", rcp |-> -1, rcq |-> [q \in Ids |-> -1]]

NoCli == [op |-> "none", name |-> "-", pc |-> "-", pid |-> 0, fd |-> 0,
          phase |-> 0, seen |-> {}]

CanIssue == cli.op = "none" /\ hist.cmds < MaxCmds

\* A new command on name ends what the earlier commands on it have promised.
Issued(name) ==
    [hist EXCEPT !.cmds = hist.cmds + 1, !.susp[name] = FALSE,
                 !.started[name] = FALSE, !.gone[name] = -1,
                 !.r11 = NoRestart, !.twice[name] = -1,
                 !.noent = IF Exists(name) THEN "-" ELSE name]

\* A process whose child runs and is the pid of its lockfile.
Settled(id) ==
    /\ Exists(id)
    /\ files[id].terminate = TermNormal
    /\ os[files[id].pid].st = "running"
    /\ os[files[id].pid].id = id

\* What restart( name ) of a settled monitored process leaves for the
\* properties: the runcount of its lockfile, and that of the lockfile of
\* every settled monitored dependent that restarts with it.
Restarted(name) ==
    IF name \in Ids /\ Proc(name).monitored /\ Settled(name) /\ AtRest(name)
    THEN [p |-> name, rcp |-> files[name].runcount,
          rcq |-> [q \in Ids |->
                     IF /\ q \in ListIds /\ name \in pParents(q)
                        /\ Proc(q).monitored /\ Proc(q).restart_on_parent_death
                        /\ ~Proc(q).skip /\ state[q] # "INIT" /\ Settled(q)
                        /\ AtRest(q)
                     THEN files[q].runcount ELSE -1]]
    ELSE NoRestart

\* A start( name ) that would open the lockfile with O_CREAT.
CliStartCreates(name) ==
    /\ CanIssue
    /\ HasFreeIno(name)
    /\ files' = IF Exists(name)
                THEN [files EXCEPT ![name].terminate = TermNormal]
                ELSE [files EXCEPT ![name] = [NoFile EXCEPT !.ino = FreeIno(name)]]
    /\ hist' = Issued(name)
    /\ UNCHANGED <<plist, state, runcount, restart_delay, engine, threads, os,
                   holder, cli>>

\* start( name ): the terminate word is cleared.
CliStart(name) ==
    /\ CanIssue
    /\ files' = IF Exists(name)
                THEN [files EXCEPT ![name].terminate = TermNormal] ELSE files
    /\ LET looping == /\ engine.pc = "done"
                      /\ Exists(name)
                      /\ files[name].terminate = TermSuspend
                      /\ ThreadsOf(name) # {}
                      /\ \A t \in ThreadsOf(name) : threads[t].pc = "suspended"
       IN  hist' = [Issued(name) EXCEPT !.started[name] = looping,
                                        !.rc0[name] = files[name].runcount]
    /\ UNCHANGED <<plist, state, runcount, restart_delay, engine, threads, os,
                   holder, cli>>

\* restart( name ): SIGKILL to the pid of the lockfile.
CliRestart(name) ==
    /\ CanIssue
    /\ IF Exists(name)
       THEN DeathOf(files[name].pid)
       ELSE UNCHANGED <<os, holder, threads, engine, state, runcount, restart_delay>>
    /\ hist' = [Issued(name) EXCEPT !.r11 = Restarted(name)]
    /\ UNCHANGED <<plist, files, cli>>

TermWord(op) == IF op = "terminate" THEN TermSuspend ELSE TermAbort

\* The post-state of a terminate( name ) that returned EOK: the word is
\* SUSPEND, the pid of the lockfile is dead, and every monitor thread of
\* name is in its suspended loop.
Suspended(name) ==
    /\ hist.susp[name]
    /\ Exists(name)
    /\ files[name].terminate = TermSuspend
    /\ os[files[name].pid].st # "running"
    /\ Children(name) = {}
    /\ ThreadsOf(name) # {}
    /\ \A t \in ThreadsOf(name) : threads[t].pc \in {"suspended", "poll"}

\* terminate_command: open_lockfile and the read of the header.
CliTermOpen(name, op) ==
    /\ CanIssue
    /\ op \in {"terminate", "delete"}
    /\ cli' = IF Exists(name)
              THEN [NoCli EXCEPT !.op = op, !.name = name, !.pc = "write",
                                 !.pid = files[name].pid, !.fd = files[name].ino]
              ELSE NoCli
    /\ hist' = [Issued(name) EXCEPT !.twice[name] =
                    IF op = "terminate" /\ Suspended(name)
                    THEN files[name].pid ELSE -1]
    /\ UNCHANGED <<plist, state, runcount, restart_delay, engine, threads, os,
                   files, holder>>

\* A terminate_command that would write back the header it has read, with
\* the new terminate word in it.
CliTermWriteHeader ==
    /\ cli.pc = "write"
    /\ files' = WriteThrough(cli.name, cli.fd,
                             [files[cli.name] EXCEPT !.terminate = TermWord(cli.op),
                                                     !.pid = cli.pid])
    /\ cli' = [cli EXCEPT !.pc = "kill"]
    /\ UNCHANGED <<plist, state, runcount, restart_delay, engine, threads, os,
                   holder, hist>>

\* terminate_command: ResetStartTime and the write of the terminate word.
CliTermWrite ==
    /\ cli.pc = "write"
    /\ files' = WriteThrough(cli.name, cli.fd,
                             [files[cli.name] EXCEPT !.terminate = TermWord(cli.op)])
    /\ cli' = [cli EXCEPT !.pc = "kill"]
    /\ UNCHANGED <<plist, state, runcount, restart_delay, engine, threads, os,
                   holder, hist>>

\* What a terminate or a delete that returned EOK leaves for the properties.
Returned(op, name, ok) ==
    IF ~ok \/ name \notin Ids THEN hist
    ELSE IF op = "terminate" THEN [hist EXCEPT !.susp[name] = TRUE]
    ELSE IF op = "delete" /\ Proc(name).monitored /\ os[cli.pid].st = "running"
    THEN [hist EXCEPT !.susp[name] = FALSE, !.gone[name] = Spawned(name)]
    ELSE [hist EXCEPT !.susp[name] = FALSE]

\* terminate_command: kill( pid, SIGKILL ), close, return.  Inside
\* ShutdownAllProcesses the caller goes on: remove_lockfile after a failure
\* and the next directory entry, or the next of the two supervisor calls.
CliTermKill ==
    /\ cli.pc = "kill"
    /\ DeathOf(cli.pid)
    /\ hist' = LET h == Returned(cli.op, cli.name, KillFinds(cli.pid))
               IN  IF cli.op = "shutdown" /\ cli.phase = 0 /\ ~KillFinds(cli.pid)
                   THEN Removed(h, cli.name) ELSE h
    /\ files' = IF cli.op = "shutdown" /\ cli.phase = 0 /\ ~KillFinds(cli.pid)
                THEN [files EXCEPT ![cli.name] = NoFile]
                ELSE files
    /\ cli' = IF cli.op # "shutdown" THEN NoCli
              ELSE [cli EXCEPT !.name = "-", !.pid = 0, !.fd = 0,
                               !.pc = IF cli.phase = 0 THEN "scan"
                                      ELSE IF cli.phase = 1 THEN "sup"
                                      ELSE "sleep2",
                               !.phase = IF cli.phase = 1 THEN 2 ELSE cli.phase]
    /\ UNCHANGED plist

(***************************************************************************)
(* ShutdownAllProcesses (-x).                                              *)
(***************************************************************************)
\* Both supervisors are up: each has made its own lock and sleeps in main(),
\* and the thread that monitors it waits for its lock.
PairUp ==
    \A r \in SupNames :
        /\ \E p \in Pids : /\ os[p].id = r /\ os[p].st = "running" /\ os[p].main = "idle"
                           /\ files[r].pid = p /\ Exists(r)
                           /\ holder[r][files[r].ino] = p
        /\ ThreadsOf(r) # {}
        /\ \A t \in ThreadsOf(r) : threads[t].pc \in {"blocked", "dlsleep"}

XIssue ==
    /\ cli.op = "none"
    /\ hist.cmds < MaxShutdowns
    /\ cli' = [NoCli EXCEPT !.op = "shutdown", !.pc = "scan"]
    /\ hist' = [hist EXCEPT !.cmds = hist.cmds + 1, !.xpair = PairUp, !.xdone = FALSE,
                            !.xhad = {n \in LockNames \ SupNames : Exists(n)}]
    /\ UNCHANGED <<plist, state, runcount, restart_delay, engine, threads, os,
                   files, holder>>

\* readdir: the next procmon.<name> entry that is not a supervisor's, and
\* the open and read of terminate_command on it; or the end of the directory.
XScan ==
    /\ cli.op = "shutdown"
    /\ cli.pc = "scan"
    /\ LET todo == {n \in LockNames \ cli.seen : Exists(n) /\ Scanned(n)} IN
       IF todo = {}
       THEN cli' = [cli EXCEPT !.pc = "sleep1"]
       ELSE \E n \in todo :
               cli' = [cli EXCEPT !.name = n, !.pc = "write",
                                  !.pid = files[n].pid, !.fd = files[n].ino,
                                  !.seen = cli.seen \cup {n}]
    /\ UNCHANGED <<plist, state, runcount, restart_delay, engine, threads, os,
                   files, holder, hist>>

\* sleep(1) is over.
XSleep1 ==
    /\ cli.op = "shutdown"
    /\ cli.pc = "sleep1"
    /\ cli' = [cli EXCEPT !.pc = "sup", !.phase = 1]
    /\ UNCHANGED <<plist, state, runcount, restart_delay, engine, threads, os,
                   files, holder, hist>>

\* terminate_and_stop_monitoring( "procmon1" ), the first call and the
\* second: open_lockfile and the read of the header.
XSup ==
    /\ cli.op = "shutdown"
    /\ cli.pc = "sup"
    /\ cli' = IF Exists("procmon1")
              THEN [cli EXCEPT !.name = "procmon1", !.pc = "write",
                               !.pid = files["procmon1"].pid,
                               !.fd = files["procmon1"].ino]
              ELSE IF cli.phase = 1 THEN [cli EXCEPT !.phase = 2]
              ELSE [cli EXCEPT !.pc = "sleep2"]
    /\ UNCHANGED <<plist, state, runcount, restart_delay, engine, threads, os,
                   files, holder, hist>>

\* sleep(1) is over.
XSleep2 ==
    /\ cli.op = "shutdown"
    /\ cli.pc = "sleep2"
    /\ cli' = [cli EXCEPT !.pc = "remove"]
    /\ UNCHANGED <<plist, state, runcount, restart_delay, engine, threads, os,
                   files, holder, hist>>

\* remove_lockfile of procmon1 and of procmon2, and exit( 0 ).
XRemove ==
    /\ cli.op = "shutdown"
    /\ cli.pc = "remove"
    /\ files' = [files EXCEPT !["procmon1"] = NoFile, !["procmon2"] = NoFile]
    /\ cli' = NoCli
    /\ hist' = [hist EXCEPT !.xdone = TRUE]
    /\ UNCHANGED <<plist, state, runcount, restart_delay, engine, threads, os,
                   holder>>

(***************************************************************************)
(* The configurations and the specifications.  The specifications of the   *)
(* start engine and of the commands follow a primary from the point where  *)
(* it reads its configuration and leave its peer out: the peer touches the *)
(* lockfiles of the two supervisors only.                                  *)
(***************************************************************************)
\* A run-to-exit task between two monitored processes.
CfgOneShot == <<Desc("A", <<>>, TRUE, FALSE, FALSE, 0),
                Desc("B", <<"A">>, FALSE, TRUE, FALSE, 0),
                Desc("C", <<"B">>, TRUE, FALSE, FALSE, 0)>>

\* A monitored process declared after a dependent that is only a marker.
CfgRev == <<Desc("B", <<"A">>, FALSE, FALSE, TRUE, 0),
            Desc("A", <<>>, TRUE, FALSE, FALSE, 0)>>

\* A monitored process restarted with its monitored parent.
CfgChain == <<Desc("A", <<>>, TRUE, FALSE, FALSE, 1),
              Desc("B", <<"A">>, TRUE, TRUE, FALSE, 0)>>

\* One monitored process.
\* A monitored process and a monitored dependent, no wait time.
CfgDep == <<Desc("A", <<>>, TRUE, FALSE, FALSE, 0),
            Desc("B", <<"A">>, TRUE, TRUE, FALSE, 0)>>

CfgOne == <<Desc("A", <<>>, TRUE, FALSE, FALSE, 0)>>

\* A run-to-exit task with a dependent that is only a marker.
CfgExit == <<Desc("A", <<>>, TRUE, FALSE, FALSE, 0),
             Desc("B", <<"A">>, FALSE, TRUE, FALSE, 0),
             Desc("C", <<"B">>, FALSE, TRUE, TRUE, 0)>>

\* A monitored process with a wait time and a run-to-exit dependent that is
\* restarted with it.
CfgSettle == <<Desc("A", <<>>, TRUE, FALSE, FALSE, 1),
               Desc("C", <<"A">>, FALSE, TRUE, FALSE, 0)>>

\* A monitored process with a monitored dependent that does not restart
\* with it, and a skipped dependent that would.
CfgFrame == <<Desc("A", <<>>, TRUE, FALSE, FALSE, 0),
              Desc("B", <<"A">>, TRUE, FALSE, FALSE, 0),
              Desc("C", <<"A">>, TRUE, TRUE, TRUE, 0)>>

\* A parent that is not in the process table, named before one that is.
CfgUnknown == <<Desc("A", <<>>, TRUE, FALSE, FALSE, 0),
                Desc("B", <<"C", "A">>, TRUE, TRUE, FALSE, 0)>>

\* A process that names itself as a parent.
CfgSelf == <<Desc("A", <<"A">>, TRUE, FALSE, FALSE, 0),
             Desc("B", <<"A">>, TRUE, TRUE, FALSE, 0)>>

\* A skipped descriptor that restarts with its parent, between a monitored
\* parent and a monitored dependent: itself run-to-exit, or monitored.
CfgSkip == <<Desc("A", <<>>, TRUE, FALSE, FALSE, 0),
             Desc("B", <<"A">>, FALSE, TRUE, TRUE, 0),
             Desc("C", <<"B">>, TRUE, FALSE, FALSE, 0)>>

CfgSkipMon == <<Desc("A", <<>>, TRUE, FALSE, FALSE, 0),
                Desc("B", <<"A">>, TRUE, TRUE, TRUE, 0),
                Desc("C", <<"B">>, TRUE, FALSE, FALSE, 0)>>

NoHist == [deaths |-> 0, cmds |-> 0, supkills |-> 0,
           before |-> [d \in Ids |-> -1], after |-> [d \in Ids |-> -1],
           susp |-> [d \in Ids |-> FALSE], rc0 |-> [d \in Ids |-> -1], mark |-> [d \in Ids |-> 0],
           started |-> [d \in Ids |-> FALSE], gone |-> [d \in Ids |-> -1],
           killed |-> "-", survivor |-> 0, xpair |-> FALSE, xdone |-> FALSE,
           r11 |-> NoRestart, fresh |-> FALSE,
           lastrc |-> [d \in Ids |-> 0], deleted |-> [d \in Ids |-> -1],
           twice |-> [d \in Ids |-> -1], sweeps |-> 0,
           adopt |-> [d \in Ids |-> 0], found |-> {}, passed |-> {},
           hold |-> {}, polled |-> {},
           lockerrs |-> 0, failed |-> {}, xhad |-> {},
           noent |-> "-"]

\* A lockfile left in /tmp by a process that is not followed here.
LeftFile == [ino |-> 1, pid |-> 0, terminate |-> TermNormal, runcount |-> 1]

\* A primary started from the shell, at the point mainpc of main(), with
\* the lockfiles of the names in left present in /tmp.
InitFiles(cfgs, mainpc, left) ==
    /\ plist \in cfgs
    /\ state = [d \in Ids |-> "INIT"]
    /\ runcount = [d \in Ids |-> 0]
    /\ restart_delay = [d \in Ids |-> 0]
    /\ engine = EngineOff
    /\ threads = [t \in Tids |-> NoThread]
    /\ os = [p \in Pids |-> IF p = PidOf("procmon1", 1)
                            THEN [NoProc EXCEPT !.st = "running", !.id = "procmon1",
                                                !.main = mainpc]
                            ELSE NoProc]
    /\ files = [n \in LockNames |-> IF n \in left THEN LeftFile ELSE NoFile]
    /\ holder = [n \in Names |-> [i \in Inos |-> 0]]
    /\ cli = NoCli
    /\ hist = NoHist

InitWith(cfgs, mainpc) == InitFiles(cfgs, mainpc, {})

Engine == EngSweep \/ EngSetRunning

\* A monitor thread up to the fork and the open of Monitor.
Spawns(t) ==
    \/ MtEntry(t) \/ MtPoll(t) \/ MtSuspended(t) \/ MtFork(t) \/ MtMonitorOpen(t)

\* A monitor thread over its whole loop.
MonitorThread(t) == Spawns(t) \/ MtWaitlock(t) \/ MtWaitpid(t)

Makelocks == \E p \in Pids : ChMakelockOpen(p) \/ ChMakelockWrite(p)

\* A command names a monitored process of the configuration.
Commands ==
    \/ \E n \in {d \in ListIds : Proc(d).monitored} :
          \/ CliStart(n) \/ CliRestart(n)
          \/ \E op \in {"terminate", "delete"} : CliTermOpen(n, op)
    \/ CliTermWrite
    \/ CliTermKill

\* The start of a configuration with a run-to-exit task.
NextStart ==
    \/ \E p \in Pids : SupProcessConfigFile(p)
    \/ Engine
    \/ \E t \in Tids : Spawns(t) \/ MtRestartDependent(t)
    \/ Makelocks
    \/ \E p \in Pids : ChExec(p)

SpecStart == InitWith({CfgOneShot}, "config") /\ [][NextStart]_vars

\* The run-to-exit task over its whole life: its program exits, its monitor
\* reaps it and restarts the dependents.
NextOneShot ==
    \/ NextStart
    \/ \E t \in Tids : MtWaitpid(t)
    \/ \E p \in Pids : /\ os[p].id \in ListIds
                        /\ ~Proc(os[p].id).monitored
                        /\ ChDeath(p)

SpecOneShot == InitWith({CfgExit}, "config") /\ [][NextOneShot]_vars

\* The same, and the start of a monitored process with a dependent that
\* does not restart with it and one that is skipped.
SpecFrame == InitWith({CfgOneShot, CfgFrame}, "config") /\ [][NextStart]_vars

\* Monitored processes under the start engine, and deaths.
Next ==
    \/ \E p \in Pids : SupProcessConfigFile(p)
    \/ Engine \/ EngWait \/ EngSleep
    \/ \E t \in Tids : MonitorThread(t) \/ MtDelay(t) \/ MtRestartDependent(t)
    \/ Makelocks
    \/ \E p \in Pids : ChDeath(p)

Init == InitWith({CfgRev, CfgChain}, "config")

Spec == Init /\ [][Next]_vars

\* The same, and a waitlock of Monitor that fails.
NextLockErr == Next \/ \E t \in Tids : MtWaitlockFails(t)

SpecLockErr == Init /\ [][NextLockErr]_vars

\* The same for the dependents of a process with a wait time.
SpecSettle == InitWith({CfgRev, CfgChain, CfgSettle}, "config") /\ [][Next]_vars

\* A skipped descriptor under the start engine, deaths and restarts.
NextSkip ==
    \/ \E p \in Pids : SupProcessConfigFile(p)
    \/ Engine
    \/ \E t \in Tids : MonitorThread(t) \/ MtRestartDependent(t)
    \/ Makelocks
    \/ \E p \in Pids : ChDeath(p)
    \/ \E n \in ListIds : CliStart(n) \/ CliRestart(n)

SpecSkip == InitWith({CfgSkip, CfgSkipMon}, "config") /\ [][NextSkip]_vars

\* Every depends list of up to MaxDepends names.
DependsOver(S) == UNION {[1..n -> S] : n \in 0..MaxDepends}

\* Every dependency graph of monitored processes A, B, C, in every order of
\* declaration relative to the edges; and of A, B with C not in the table.
CfgGraphs ==
    {<<Desc("A", da, TRUE, FALSE, FALSE, 0), Desc("B", db, TRUE, FALSE, FALSE, 0),
       Desc("C", dc, TRUE, FALSE, FALSE, 0)>> :
         da \in DependsOver(Ids), db \in DependsOver(Ids), dc \in DependsOver(Ids)}
    \cup
    {<<Desc("A", da, TRUE, FALSE, FALSE, 0), Desc("B", db, TRUE, FALSE, FALSE, 0)>> :
         da \in DependsOver(Ids), db \in DependsOver(Ids)}

\* The dependency build and the start engine, over every graph.
NextGraphs ==
    \/ \E p \in Pids : SupProcessConfigFile(p)
    \/ Engine

SpecGraphs == InitWith(CfgGraphs, "config") /\ [][NextGraphs]_vars

\* A run-to-exit task without parents, and one whose only parent is
\* skipped, each with a monitored dependent.
CfgOrphan == <<Desc("A", <<>>, FALSE, FALSE, FALSE, 0),
               Desc("B", <<"A">>, TRUE, FALSE, FALSE, 0),
               Desc("C", <<"B">>, FALSE, TRUE, FALSE, 0)>>

CfgSkipped == <<Desc("A", <<>>, TRUE, FALSE, TRUE, 0),
                Desc("B", <<"A">>, FALSE, TRUE, FALSE, 0),
                Desc("C", <<"B">>, TRUE, FALSE, FALSE, 0)>>

SpecIdle == InitWith({CfgOrphan, CfgSkipped}, "config") /\ [][NextSkip]_vars

\* One monitored process under the start engine, and commands.
NextCli ==
    \/ \E p \in Pids : SupProcessConfigFile(p)
    \/ Engine
    \/ \E t \in Tids : MonitorThread(t) \/ MtRestartDependent(t)
    \/ Makelocks
    \/ Commands

SpecCli == InitWith({CfgRev}, "config") /\ [][NextCli]_vars

\* A monitored process and a monitored dependent that restarts with it, and
\* restart commands.
NextRestart ==
    \/ \E p \in Pids : SupProcessConfigFile(p)
    \/ Engine
    \/ \E t \in Tids : MonitorThread(t) \/ MtRestartDependent(t)
    \/ Makelocks
    \/ \E n \in {d \in ListIds : Proc(d).monitored} : CliRestart(n)

SpecRestart == InitWith({CfgDep}, "config") /\ [][NextRestart]_vars

\* Configurations with and without an error in a depends list, and restart
\* commands.
SpecDepends ==
    InitWith({CfgDep, CfgUnknown, CfgSelf}, "config") /\ [][NextRestart]_vars

\* The pair of supervisors, either of them killed.  Every thread and every
\* process that can take a step is scheduled in the end.
SupMain(p) ==
    \/ SupMakeOwnLockOpen(p) \/ SupMakeOwnLockWrite(p)
    \/ SupMonitorProcmon(p) \/ SupProcessConfigFile(p)

NextPair ==
    \/ \E p \in Pids : SupMain(p) \/ SupKill(p)
    \/ EngSweep
    \/ \E t \in Tids : MonitorThread(t) \/ MtDlSleep(t)
    \/ Makelocks

SupTids == SupNames \X (1..MaxThreads)

SupPids == {PidOf(r, n) : r \in SupNames, n \in 1..MaxSpawn}

PairFairness ==
    /\ \A t \in SupTids : WF_vars(MonitorThread(t) \/ MtDlSleep(t))
    /\ \A p \in SupPids :
          WF_vars(SupMain(p) \/ ChMakelockOpen(p) \/ ChMakelockWrite(p))

SpecPair == InitWith({<<>>}, "mkown_r") /\ [][NextPair]_vars /\ PairFairness

\* The pair and one monitored process: a death of the child, terminate and
\* delete, and the primary killed and started again by its peer.
NextRevive ==
    \/ \E p \in Pids : SupMain(p) \/ ChDeath(p)
    \/ \E p \in Pids : os[p].id = "procmon1" /\ SupKill(p)
    \/ Engine
    \/ \E t \in Tids : MonitorThread(t) \/ MtDlSleep(t)
    \/ Makelocks
    \/ \E n \in ListIds : CliTermOpen(n, "delete")
    \/ CliTermWrite \/ CliTermKill

SpecRevive == InitWith({CfgOne}, "mkown_r") /\ [][NextRevive]_vars

\* The pair and one monitored process, and shutdown-all.
NextShutdown ==
    \/ \E p \in Pids : SupMain(p)
    \/ Engine
    \/ \E t \in Tids : MonitorThread(t) \/ MtDlSleep(t)
    \/ Makelocks
    \/ XIssue \/ XScan \/ XSleep1 \/ XSup \/ XSleep2 \/ XRemove
    \/ CliTermWrite \/ CliTermKill

SpecShutdown == InitWith({CfgOne}, "mkown_r") /\ [][NextShutdown]_vars

\* The same with the lockfile of another process in /tmp.
SpecShutdownAll ==
    (\E left \in SUBSET Foreign : InitFiles({CfgOne}, "mkown_r", left))
        /\ [][NextShutdown]_vars

(***************************************************************************)
(* The properties.                                                         *)
(***************************************************************************)
\* C1: whenever the start engine sets a descriptor's state to RUNNING, every
\* declared parent of that descriptor is RUNNING at that moment.
C1_ParentsRunning ==
    [][EngSetRunning => \A p \in pParents(EngCur) : state[p] = "RUNNING"]_vars

\* C2: while the terminate word is normal, a death of the child of a
\* monitored descriptor is not left unanswered with nothing under way, and
\* once the replacement has started the runcount of the lockfile is greater
\* than it was before the death.
C2_DeathAnswered ==
    \A id \in Ids :
        /\ (/\ hist.before[id] >= 0 /\ hist.after[id] < 0
            /\ Exists(id) /\ files[id].terminate = TermNormal) => ~AtRest(id)
        /\ hist.after[id] >= 0 => hist.after[id] > hist.before[id]

\* C3: at every instant at most one live child process exists per
\* descriptor id.
C3_OneLiveChild == \A id \in Ids : Cardinality(Children(id)) <= 1

\* C4: at most one monitor task exists for a descriptor at any time.
C4_OneMonitor == \A id \in Ids : Cardinality(ThreadsOf(id)) <= 1

\* C5: after terminate (-k) has returned success, and until start is
\* issued, the terminate word is SUSPEND and no child of the id is alive.
C5_SuspendedStaysDown ==
    \A id \in Ids :
        hist.susp[id] => files[id].terminate = TermSuspend /\ Children(id) = {}

\* C6: after start (-s) on a suspended descriptor whose monitor is in its
\* suspended poll loop, and with no other command and no other death, the
\* terminate word is 0 and the runcount of the lockfile goes up by one, not
\* by more.
C6_StartResumesOnce ==
    \A id \in Ids :
        hist.started[id] =>
            /\ files[id].terminate = TermNormal
            /\ files[id].runcount \in {hist.rc0[id], hist.rc0[id] + 1}

\* C7: after terminate-and-delete (-d) has returned success on a running
\* monitored descriptor, no replacement child is spawned.
C7_NoReplacement ==
    \A id \in Ids : hist.gone[id] >= 0 => Spawned(id) = hist.gone[id]

\* A supervisor of role r runs again and both supervisor lockfiles exist.
PairRestored(r) ==
    /\ \E p \in Pids : os[p].id = r /\ os[p].st = "running"
    /\ Exists("procmon1")
    /\ Exists("procmon2")

\* C8: when one supervisor dies while its peer is alive and its lockfile
\* carries no SUSPEND or ABORT word, the survivor, unless it dies too, in the
\* end has spawned a new instance of the dead role, and both supervisor
\* lockfiles exist.
C8_SurvivorRespawns ==
    \A r \in SupNames : \A q \in SupPids :
        (hist.killed = r /\ hist.survivor = q) ~> (~Live(q) \/ PairRestored(r))

\* C8 happens: a supervisor was killed, its peer lives, and the role runs again.
C8_Witness ==
    /\ hist.killed \in SupNames
    /\ Live(hist.survivor)
    /\ PairRestored(hist.killed)

\* C9: after shutdown-all (-x), issued with both supervisors up, has
\* returned, no procmon.* lockfile exists.
C9_NoLockfileLeft ==
    (hist.xdone /\ hist.xpair) => \A n \in Names : ~Exists(n)

\* C10: after shutdown-all (-x), issued with both supervisors up, has
\* returned, neither the primary nor the secondary supervisor is running.
C10_NoSupervisorLeft ==
    (hist.xdone /\ hist.xpair) => \A p \in Pids : ~(os[p].id \in SupNames /\ Live(p))

\* C11: after restart (-r) of a monitored P with a started monitored
\* dependent Q that restarts with its parent, the runcount of Q's lockfile
\* is not incremented before the runcount of P's lockfile is.
C11_DependentAfterParent ==
    \A q \in Ids :
        (hist.r11.rcq[q] >= 0 /\ files[q].runcount > hist.r11.rcq[q])
            => files[hist.r11.p].runcount > hist.r11.rcp

\* C12: for monitored A and B where B depends on A, no child of B is forked
\* before the first child of A is forked and the lockfile of A written.
C12_ParentForkedFirst ==
    \A a \in ListIds : \A b \in ListIds :
        (a \in pParents(b) /\ Proc(a).monitored /\ Proc(b).monitored
            /\ Spawned(b) > 0)
        => (Spawned(a) > 0 /\ Exists(a))

\* C13: when the start engine freshly launches a monitored descriptor with
\* wait > 0 (no process of it was alive at the launch), the engine does not
\* go from its test of the lockfile straight to RUNNING: it puts the
\* descriptor in WAITING and sleeps.  Stated for the launches in which the
\* lockfile exists when it is tested, where the value read is defined.
C13_SettleTime ==
    [][(/\ engine.pc = "wait" /\ hist.fresh
        /\ Proc(EngCur).monitored /\ Exists(EngCur))
       => engine'.pc # "setrun"]_vars

\* C14: the runcount read from the lockfile of a descriptor never decreases:
\* a write to the lockfile does not lower it, and a lockfile that exists
\* again after its removal does not carry less than the one removed.
C14_RuncountMonotone ==
    \A id \in Ids : Exists(id) => files[id].runcount >= hist.lastrc[id]

\* C15: whenever a monitored descriptor has a child that has made its lock
\* and runs, its lockfile exists and the write lock on byte 0 of it is held
\* for that child.
C15_ChildHoldsLock ==
    \A p \in Pids :
        (os[p].st = "running" /\ os[p].id \in Ids /\ Proc(os[p].id).monitored)
        => (Exists(os[p].id) /\ holder[os[p].id][files[os[p].id].ino] = p)

C17_SkipNeverLaunched ==
    \A id \in ListIds :
        Proc(id).skip =>
            /\ ThreadsOf(id) = {}
            /\ Spawned(id) = 0
            /\ (engine.pc = "done" /\ \A a \in pParents(id) : state[a] = "RUNNING")
                   => state[id] = "RUNNING"

\* A parent has respawned and is past its RestartDependents, the skipped
\* descriptor is RUNNING and its own dependent has a child.
C17_Witness ==
    \E id \in ListIds : \E a \in pParents(id) : \E t \in ThreadsOf(a) :
        /\ Proc(id).skip /\ Proc(id).restart_on_parent_death
        /\ state[id] = "RUNNING"
        /\ threads[t].pc = "monopen" /\ SpawnNo(threads[t].pid) >= 2
        /\ \E c \in ListIds : id \in pParents(c) /\ Children(c) # {}

\* C18: when a descriptor names a parent that is not in the process table,
\* or names itself, the dependency build fails and the start engine is never
\* run: no descriptor leaves INIT, none gets a monitor thread or a child or
\* a lockfile; and no descriptor is ever its own parent.
C18_BadDependsAborts ==
    /\ \A id \in ListIds : id \notin pParents(id)
    /\ (\E id \in ListIds : \E k \in 1..Len(Proc(id).depends) :
            Proc(id).depends[k] \notin ListIds \ {id}) =>
           /\ engine = EngineOff
           /\ \A id \in ListIds :
                 /\ state[id] = "INIT"
                 /\ ThreadsOf(id) = {}
                 /\ Spawned(id) = 0
                 /\ ~Exists(id)

\* ProcessConfigFile has returned from a failed dependency build, and a
\* command has been issued since.
C18_Witness ==
    /\ \E id \in ListIds : \E k \in 1..Len(Proc(id).depends) :
          Proc(id).depends[k] \notin ListIds \ {id}
    /\ \E p \in Pids : os[p].id = "procmon1" /\ os[p].main = "idle"
    /\ hist.cmds > 0

\* C19: once terminate-and-delete of a descriptor has taken effect (its
\* monitor thread has removed the lockfile and exited, and no child of it
\* is left), its lockfile stays absent and no child of it is forked again.
C19_StaysDeleted ==
    \A id \in Ids :
        hist.deleted[id] >= 0 =>
            ~Exists(id) /\ Spawned(id) = hist.deleted[id]

\* C20: the state of a descriptor that is RUNNING does not change: no step
\* of the start engine or of a restart sets it back.
C20_RunningStays ==
    [][\A id \in Ids : state[id] = "RUNNING" => state'[id] = "RUNNING"]_vars

\* C21: a step that writes state, runcount or restart_delay of a descriptor
\* is a step of a monitor thread of that descriptor, or a step of the start
\* engine; no monitor thread of another descriptor writes them.
C21_OwnWriter ==
    [][\A id \in Ids :
          (\/ state'[id] # state[id]
           \/ runcount'[id] # runcount[id]
           \/ restart_delay'[id] # restart_delay[id])
          => (\/ \E t \in ThreadsOf(id) : threads'[t] # threads[t]
              \/ engine' # engine)]_vars

C23_LaunchedOnce ==
    [][(engine.pc = "sweep" /\ engine' # engine /\ threads' # threads)
           => state[EngCur] = "INIT"]_vars

\* C24: for an acyclic graph in which every declared parent is found, the
\* start engine ends with every descriptor RUNNING, after no more passes
\* over the list than the graph is deep.
C24_EngineEnds ==
    [][(Acyclic /\ engine.pc # "done" /\ engine'.pc = "done")
           => /\ \A id \in ListIds : state'[id] = "RUNNING"
              /\ hist'.sweeps <= GraphDepth]_vars

\* C25: the runcount of a descriptor that is not monitored never exceeds the
\* largest runcount among its parents.
C25_RunToExitCount ==
    \A id \in ListIds :
        ~Proc(id).monitored => runcount[id] <= GetParentRuncount(id)

\* C26: a descriptor that is not monitored and whose parents, if it has any,
\* all have runcount 0 has no child, now or earlier; each of its monitor
\* threads is at the suppression check, where it ends; and when the start
\* engine has ended the descriptor is RUNNING.
C26_IdleNeverForked ==
    \A id \in ListIds :
        (~Proc(id).monitored /\ \A p \in pParents(id) : runcount[p] = 0) =>
            /\ Spawned(id) = 0
            /\ \A t \in ThreadsOf(id) : threads[t].pc = "entry"
            /\ engine.pc = "done" => state[id] = "RUNNING"

\* The engine has ended, and a dependent of such a descriptor has a child.
C26_Witness ==
    \E id \in ListIds : \E c \in ListIds :
        /\ ~Proc(id).monitored /\ \A p \in pParents(id) : runcount[p] = 0
        /\ engine.pc = "done"
        /\ state[id] = "RUNNING"
        /\ ThreadsOf(id) = {}
        /\ id \in pParents(c) /\ Children(c) # {}

\* C27: a monitor thread that finds the pid of the lockfile alive under a
\* normal terminate word forks nothing and leaves the runcount as it is in
\* that step, and no child of the descriptor is forked afterwards while
\* that process is alive.
C27_AdoptsRunning ==
    [][\A id \in Ids :
          /\ hist'.adopt[id] # hist.adopt[id]
                => (runcount'[id] = runcount[id] /\ Spawned(id)' = Spawned(id))
          /\ (hist.adopt[id] > 0 /\ Spawned(id)' > Spawned(id))
                => ~Live(hist.adopt[id])]_vars

\* A primary started again by its peer has found the child of its
\* predecessor, and has forked a replacement after that child died.
C27_Witness ==
    \E id \in Ids : \E q \in Children(id) :
        /\ hist.adopt[id] > 0
        /\ ~Live(hist.adopt[id])
        /\ hist.supkills > 0
        /\ os[q].parent # PidOf("procmon1", 1)
        /\ SpawnNo(q) > SpawnNo(hist.adopt[id])

\* C28: the RestartDependent calls of a monitor thread that has found the
\* process of its descriptor running, and has not forked it, kill no
\* process, create no monitor thread and change no state and no
\* restart_delay.
C28_PropagatesAfterFork ==
    [][\A t \in Tids :
          (t \in hist.found /\ threads[t].pc = "deps" /\ threads'[t] # threads[t])
          => /\ os' = os
             /\ state' = state
             /\ restart_delay' = restart_delay
             /\ \A u \in Tids \ {t} : threads'[u] = threads[u]]_vars

\* C29: a RestartDependent call for a child that has no
\* restart_on_parent_death, or has skip, or is in state INIT, kills no
\* process, creates no monitor thread, and leaves every state,
\* restart_delay and runcount and every lockfile as it is.
C29_OthersUntouched ==
    [][\A t \in Tids :
          (/\ threads[t].pc = "deps" /\ threads'[t] # threads[t]
           /\ LET c == pChildren(threads[t].id)[threads[t].k]
              IN  \/ ~Proc(c).restart_on_parent_death
                  \/ Proc(c).skip
                  \/ state[c] = "INIT")
          => /\ os' = os /\ holder' = holder /\ files' = files
             /\ state' = state
             /\ restart_delay' = restart_delay
             /\ runcount' = runcount
             /\ \A u \in Tids \ {t} : threads'[u] = threads[u]]_vars

\* A RestartDependent call has passed over a child that restarts with its
\* parent but is skipped or not yet started, and one has passed over a
\* child that does not restart with its parent.
C29_Witness ==
    /\ \E c \in hist.passed : Proc(c).restart_on_parent_death
    /\ \E c \in hist.passed : ~Proc(c).restart_on_parent_death

\* C30: when propagation restarts child C of parent P with a wait time, the
\* step that kills C or starts its monitor has set C.restart_delay to P.wait,
\* no monitor of C is then past its test of the delay, and no process of C is
\* forked from then on until a monitor of C has slept its restart delay.
C30_DelayBeforeFork ==
    [][\A c \in Ids :
          /\ (c \in hist'.hold /\ c \notin hist.hold) =>
                /\ \E P \in pParents(c) : /\ Proc(P).wait > 0
                                          /\ restart_delay'[c] = Proc(P).wait
                /\ \A t \in ThreadsOf(c) : threads[t].pc \notin {"delay", "fork"}
          /\ Spawned(c)' > Spawned(c) => c \notin hist.hold]_vars

\* C31: a monitor that polls after EDEADLK leaves the poll only with the
\* lock: while the lock is held by a live process it does not return, and
\* once the holder is dead a later retry gets the lock and Monitor returns
\* (or the supervisor of the monitor has died itself).
C31_DeadlockPolls ==
    /\ [][\A t \in Tids :
             (threads[t].pc = "dlsleep" /\ threads'[t].pc \notin {"dlsleep", "blocked"})
             => \/ ~Live(threads[t].owner)'
                \/ /\ threads'[t].pc = "waitpid"
                   /\ holder[threads[t].id][threads[t].fd] \in {0, threads[t].owner}]_vars
    /\ \A t \in SupTids :
          (threads[t].pc = "dlsleep" /\ holder[threads[t].id][threads[t].fd] = 0)
             ~> (threads[t].pc \notin {"dlsleep", "blocked"})

\* A monitor that polled after EDEADLK has got the lock after a supervisor
\* was killed.
C31_Witness ==
    hist.polled # {} /\ hist.supkills > 0

\* C32: when the waitlock of Monitor fails with an error other than EDEADLK,
\* the monitor thread of the descriptor ends with that step, no lockfile, no
\* process and no other thread is changed by it, and no process of the
\* descriptor is forked afterwards.
C32_LockErrorEndsTask ==
    [][/\ \A t \in Tids :
            (hist'.lockerrs > hist.lockerrs /\ threads'[t] # threads[t])
            => /\ threads'[t] = NoThread
               /\ files' = files /\ os' = os
               /\ \A u \in Tids \ {t} : threads'[u] = threads[u]
       /\ \A id \in hist.failed : Spawned(id)' = Spawned(id)]_vars

\* C33: the write of makelock into an existing lockfile, by a newly forked
\* child, leaves the terminate word of the lockfile as it is.
C33_MakelockKeepsWord ==
    [][\A p \in Pids :
          (os[p].st = "mlread" /\ os'[p].st = "running" /\ Exists(os[p].id))
          => files'[os[p].id].terminate = files[os[p].id].terminate]_vars

\* C34: when shutdown-all has come to its sleep before the supervisor
\* entries, and from then on, terminate-and-delete has been issued to every
\* entry that was in /tmp when the command began and is no supervisor
\* entry: none that is still there was passed over.
C34_NoEntrySkipped ==
    (cli.op = "shutdown" /\ (cli.pc = "sleep1" \/ cli.phase >= 1))
        => \A n \in hist.xhad : n \in cli.seen \/ ~Exists(n)

\* C35: get_pid_from_lockfile answers -1 for a lockfile with SUSPEND and -2
\* for one with ABORT, whether the pid of the lockfile is alive or not;
\* otherwise 0 when there is no lockfile or the pid of the lockfile is not
\* a live process, and the pid when it is alive.
C35_PidStatus ==
    \A name \in Names :
        get_pid_from_lockfile(name) =
            IF Exists(name) /\ files[name].terminate = TermSuspend THEN {-1}
            ELSE IF Exists(name) /\ files[name].terminate = TermAbort THEN {-2}
            ELSE IF ~Exists(name) \/ ~Live(files[name].pid) THEN {0}
            ELSE {files[name].pid}

\* C36: a start, restart, terminate or terminate-and-delete on a name that
\* has no lockfile returns the error of open_lockfile and changes nothing:
\* no lockfile, no process, no lock and no thread, and the command is over.
C36_NoLockfileNoEffect ==
    [][\A name \in {d \in ListIds : Proc(d).monitored} :
          (/\ ~Exists(name)
           /\ \/ CliStart(name) \/ CliRestart(name)
              \/ \E op \in {"terminate", "delete"} : CliTermOpen(name, op))
          => /\ hist'.noent = name
             /\ files' = files /\ os' = os /\ holder' = holder
             /\ threads' = threads /\ cli' = NoCli]_vars

\* A command on a name without a lockfile has returned its error.
C36_Witness == hist.noent # "-" /\ cli.op = "none"

\* C37: start changes at most the terminate word of the lockfile it names
\* and no other lockfile; restart changes no lockfile; no step of terminate
\* and of terminate-and-delete changes the pid or the runcount of a
\* lockfile, or puts another file under its name.
C37_CommandsWriteTheirFields ==
    [][/\ \A name \in {d \in ListIds : Proc(d).monitored} :
            /\ CliStart(name) =>
                  \A m \in LockNames :
                      files'[m] = IF m = name
                                  THEN [files[m] EXCEPT !.terminate = files'[m].terminate]
                                  ELSE files[m]
            /\ CliRestart(name) => files' = files
            /\ (\E op \in {"terminate", "delete"} : CliTermOpen(name, op))
                  => files' = files
       /\ (CliTermWrite \/ CliTermKill) =>
             \A m \in LockNames : /\ files'[m].pid = files[m].pid
                                   /\ files'[m].runcount = files[m].runcount
                                   /\ files'[m].ino = files[m].ino]_vars

\* terminate_command has written its word into a lockfile whose pid a
\* makelock has changed since the command read it.
C37_Witness ==
    /\ cli.pc = "kill" /\ cli.op \in {"terminate", "delete"}
    /\ files[cli.name].ino = cli.fd
    /\ files[cli.name].terminate = TermWord(cli.op)
    /\ files[cli.name].pid # cli.pid

\* C38: a descriptor that is not monitored never has a lockfile; its monitor
\* thread never opens a lockfile or waits for a lock, it forks at most one
\* child, and after its waitpid it only restarts the dependents and ends.
C38_RunToExit ==
    /\ \A id \in ListIds : ~Proc(id).monitored => ~Exists(id)
    /\ [][\A t \in Tids :
             (threads[t].pc # "free" /\ threads[t].id \in ListIds
                 /\ ~Proc(threads[t].id).monitored)
             => /\ threads'[t].pc \notin {"monopen", "blocked", "dlsleep"}
                /\ threads[t].pc = "fork" => threads[t].pid = 0
                /\ threads[t].pc \in {"waitpid", "deps"}
                      => threads'[t].pc \in {"waitpid", "deps", "free"}]_vars

\* The program of a run-to-exit task has exited and its monitor thread has
\* restarted a dependent and has ended.
C38_Witness ==
    \E id \in ListIds :
        /\ ~Proc(id).monitored
        /\ \E p \in Pids : os[p].id = id /\ os[p].st = "dead"
        /\ ThreadsOf(id) = {}
        /\ \E c \in Range(pChildren(id)) : c \in hist.passed

=============================================================================
